---- MODULE Spec2Model ----
(***************************************************************************)
(* Model of streamlit_landing_app.py: the field validators                 *)
(* (is_valid_email, is_valid_phone), the self-test validator validate_lite *)
(* and the submit handler of run_streamlit_app (validation, webhook POST,  *)
(* SMTP relay, mailto fallback).                                           *)
(*                                                                         *)
(* Python strings are sequences of one-character strings.                  *)
(***************************************************************************)
EXTENDS Integers, Sequences, FiniteSets, TLC

VARIABLES
    \* ---- submit handler of run_streamlit_app ----
    pc,          \* position in the handler: idle, webhook, smtp, finish, done, crashed
    secrets,     \* st.secrets: [endpoint, keys]
    requestsOk,  \* "requests is not None"
    today,       \* date.today()
    form,        \* values returned by the widgets
    errors,      \* the list `errors`
    payload,     \* the dict `payload`
    sent,        \* the flag `sent`
    err_msg,     \* the variable `err_msg`
    calls,       \* network calls issued by this run and how each ended, in order
    shown,       \* what the run rendered: st.error / st.success / st.warning
    \* ---- is_valid_phone ----
    phone_s,     \* argument of is_valid_phone
    phone_ok,    \* its result
    \* ---- validate_lite ----
    lite_f,      \* argument dict of validate_lite
    lite_now,    \* datetime.now() at the call
    lite_e,      \* keys of the returned dict
    lite_pc      \* "idle" before the first call, "called" after a call

vars == <<pc, secrets, requestsOk, today, form, errors, payload, sent, err_msg,
          calls, shown, phone_s, phone_ok, lite_f, lite_now, lite_e, lite_pc>>

handlerVars == <<pc, secrets, requestsOk, today, form, errors, payload, sent,
                 err_msg, calls, shown>>
phoneVars == <<phone_s, phone_ok>>
liteVars == <<lite_f, lite_now, lite_e, lite_pc>>

(***************************************************************************)
(* Bounds                                                                  *)
(***************************************************************************)
\* longest string built character by character for is_valid_phone
MaxLen == 8

(***************************************************************************)
(* Characters and strings                                                  *)
(***************************************************************************)
Digits == {"0", "1", "2", "3", "4", "5", "6", "7", "8", "9"}
Letters == {"a", "b", "i", "k", "l", "m", "o", "r", "t", "M", "R", "s", "u"}

\* \w of the re module on str patterns: letters, digits and underscore
WordChar(c) == c \in Letters \cup Digits \cup {"_"}

\* the characters str.strip() removes
IsSpace(c) == c \in {" ", "\n", "\t"}

\* code points, for the ordering of str.__lt__
Ord(c) ==
    CASE c = "\n" -> 10
      [] c = " " -> 32
      [] c = "-" -> 45
      [] c = "0" -> 48
      [] c = "1" -> 49
      [] c = "2" -> 50
      [] c = "3" -> 51
      [] c = "4" -> 52
      [] c = "5" -> 53
      [] c = "6" -> 54
      [] c = "7" -> 55
      [] c = "8" -> 56
      [] c = "9" -> 57
      [] OTHER -> 97

\* s < t of two Python strings: lexicographic on code points
RECURSIVE StrLT(_, _)
StrLT(s, t) ==
    IF t = <<>> THEN FALSE
    ELSE IF s = <<>> THEN TRUE
    ELSE IF Ord(Head(s)) # Ord(Head(t)) THEN Ord(Head(s)) < Ord(Head(t))
    ELSE StrLT(Tail(s), Tail(t))

RECURSIVE LStrip(_)
LStrip(s) == IF s # <<>> /\ IsSpace(Head(s)) THEN LStrip(Tail(s)) ELSE s

RECURSIVE RStrip(_)
RStrip(s) ==
    IF s # <<>> /\ IsSpace(s[Len(s)]) THEN RStrip(SubSeq(s, 1, Len(s) - 1)) ELSE s

\* str.strip()
Strip(s) == RStrip(LStrip(s))

\* where the regex anchor $ matches (no MULTILINE flag): at the end of the
\* string, and just before a newline that is the last character
AtDollar(s, k) ==
    \/ k = Len(s)
    \/ k = Len(s) - 1 /\ s[Len(s)] = "\n"

(***************************************************************************)
(* is_valid_phone                                                          *)
(***************************************************************************)
\* the character class [0-9 +()\-] of PHONE_RE
PhoneClass == Digits \cup {" ", "+", "(", ")", "-"}

\* the quantifier {7,} of PHONE_RE
MinPhoneLen == 7

\* PHONE_RE.match(s): ^[0-9 +()\-]{7,}$
PHONE_RE(s) ==
    \E k \in MinPhoneLen..Len(s) :
        /\ \A i \in 1..k : s[i] \in PhoneClass
        /\ AtDollar(s, k)

is_valid_phone(s) == PHONE_RE(s)

(***************************************************************************)
(* is_valid_email                                                          *)
(***************************************************************************)
\* [\w\-.] : the class of the local part
LocalClass(c) == WordChar(c) \/ c \in {"-", "."}

\* [\w-] : the class of a domain label
LabelClass(c) == WordChar(c) \/ c = "-"

\* the quantifier {2,} of the final label of EMAIL_RE
MinTldLen == 2

\* d matches ([\w-]+\.)+[\w-]{2,} : some dot at p ends a run of non-empty
\* labels each followed by a dot, and the rest is a final label of 2 or more
DomainMatch(d) ==
    \E p \in 2..Len(d) :
        /\ d[p] = "."
        /\ d[1] # "."
        /\ \A i \in 1..p : d[i] = "." \/ LabelClass(d[i])
        /\ \A i \in 2..p : ~(d[i] = "." /\ d[i - 1] = ".")
        /\ Len(d) - p >= MinTldLen
        /\ \A i \in (p + 1)..Len(d) : LabelClass(d[i])

\* EMAIL_RE.match(s): ^[\w\-.]+@([\w-]+\.)+[\w-]{2,}$
EMAIL_RE(s) ==
    \E a \in 2..Len(s) : \E k \in a..Len(s) :
        /\ s[a] = "@"
        /\ \A i \in 1..(a - 1) : LocalClass(s[i])
        /\ AtDollar(s, k)
        /\ DomainMatch(SubSeq(s, a + 1, k))

is_valid_email(s) == EMAIL_RE(s)

(***************************************************************************)
(* Dates                                                                   *)
(***************************************************************************)
\* calendar dates <<year, month, day>> the model draws from
Dates == {<<2026, 2, 10>>, <<2026, 10, 9>>, <<2027, 2, 9>>}

\* the value of a date widget that holds no date (None)
NoDate == <<>>

\* chronological order of two calendar dates
DateLT(a, b) ==
    \/ a[1] < b[1]
    \/ a[1] = b[1] /\ a[2] < b[2]
    \/ a[1] = b[1] /\ a[2] = b[2] /\ a[3] < b[3]

DigitChar(d) == <<"0", "1", "2", "3", "4", "5", "6", "7", "8", "9">>[d + 1]

\* strftime("%Y-%m-%d") : four-digit year, zero-padded month and day
fmt(d) ==
    << DigitChar(d[1] \div 1000), DigitChar((d[1] \div 100) % 10),
       DigitChar((d[1] \div 10) % 10), DigitChar(d[1] % 10), "-",
       DigitChar(d[2] \div 10), DigitChar(d[2] % 10), "-",
       DigitChar(d[3] \div 10), DigitChar(d[3] % 10) >>

(***************************************************************************)
(* validate_lite                                                           *)
(***************************************************************************)
\* the keys validate_lite puts in the dict e; f.date is a string ("" when
\* missing), now is datetime.now()
validate_lite(f, now) ==
    (IF f.name = <<>> \/ Len(Strip(f.name)) < 2 THEN {"name"} ELSE {})
    \cup (IF ~is_valid_email(f.email) THEN {"email"} ELSE {})
    \cup (IF ~is_valid_phone(f.phone) THEN {"phone"} ELSE {})
    \cup (IF f.date = <<>> THEN {"date"}
          ELSE IF StrLT(f.date, fmt(now)) THEN {"date"} ELSE {})
    \cup (IF ~f.consent THEN {"consent"} ELSE {})

(***************************************************************************)
(* Input values                                                            *)
(***************************************************************************)
Names == {<<>>, <<" ", "M", " ">>, <<"M", "a">>}
Emails == {<<"a", "@", "b", ".", "i", "t">>, <<"a", "@", "b">>,
           <<"a", "@", "b", ".", "i", "t", "\n">>}
Phones == {<<"1", "2", "3", "4", "5", "6", "7">>, <<"1", "2", "3">>,
           <<"1", "2", "3", "4", "5", "6", "7", "\n">>}
Honeypots == {<<>>, <<" ">>, <<"b", "o", "t">>}
Locations == {<<"R", "m">>}
Messages == {<<>>}

\* the characters the strings given to is_valid_phone are built from
PhoneAlphabet == {"1", "+", "a", "\n"}

\* the arguments of the is_valid_phone self-tests
PhoneTests ==
    { <<"+", "3", "9", " ", "3", "3", "3", " ", "1", "2", "3", " ", "4", "5", "6", "7">>,
      <<"1", "2", "3">>,
      <<"(", "3", "3", "3", ")", " ", "1", "2", "3", "-", "4", "5", "6", "7">> }

(***************************************************************************)
(* Submit handler of run_streamlit_app                                     *)
(***************************************************************************)
COMPANY_NAME == "Il Nodo del Vento"
CONTACT_EMAIL == "tua@mail.com"

EmailKeys == {"EMAIL_HOST", "EMAIL_PORT", "EMAIL_USER", "EMAIL_PASS", "EMAIL_TO"}

\* the SMTP keys st.secrets may hold
KeySets == {EmailKeys, EmailKeys \ {"EMAIL_PASS"}, {"EMAIL_HOST"}, {}}

\* st.secrets.get("FORMSPREE_ENDPOINT", None): absent, empty or an URL
Endpoints == {"None", "", "https://formspree.io/f/x"}

\* what requests.post does: a response with a status code, or an exception
Statuses == {101, 200, 204, 304, 404, 500}
PostResults ==
    [kind : {"response"}, status : Statuses]
    \cup [kind : {"ConnectionError", "Timeout"}, status : {0}]

\* what the SMTP block does: it completes, or one of its calls raises
SmtpResults == {"ok", "bad_port", "connect_error", "login_error", "send_error"}

\* err_msg values
None == [kind |-> "None", code |-> 0]
HttpMsg(status) == [kind |-> "Invio non riuscito (HTTP)", code |-> status]
PostExcMsg == [kind |-> "Errore invio", code |-> 0]
SmtpExcMsg == [kind |-> "Errore SMTP", code |-> 0]

NoMailto == [scheme |-> "", to |-> "", subject |-> "", body |-> <<>>]
NoShown == [kind |-> "none", lines |-> <<>>, diag |-> None, mailto |-> NoMailto]
NoPayload == [evento_data |-> <<>>, nome |-> <<>>, telefono |-> <<>>, email |-> <<>>,
              location |-> <<>>, messaggio |-> <<>>, subject |-> <<>>]
NoForm == [hp |-> <<>>, ev_date |-> NoDate, name |-> <<>>, phone |-> <<>>,
           email |-> <<>>, location |-> <<>>, message |-> <<>>, consent |-> FALSE]

\* the widget values a submission arrives with. The handler takes them as the
\* session delivers them: min_value=date.today() of st.date_input constrains
\* the date picker of the page, and the handler itself compares no date.
Forms ==
    [hp : Honeypots, ev_date : Dates \cup {NoDate}, name : Names, phone : Phones,
     email : Emails, location : Locations, message : Messages, consent : BOOLEAN]

\* variant of HoneypotHit: the honeypot test left out of the validation
HoneypotIgnored(hp) == FALSE

\* the honeypot rule: hp.strip() is truthy
HoneypotHit(hp) == Strip(hp) # <<>>

\* the list `errors` the handler builds
Validate(f) ==
    (IF HoneypotHit(f.hp) THEN <<"Rilevato spam.">> ELSE <<>>)
    \o (IF f.name = <<>> \/ Len(Strip(f.name)) < 2
        THEN <<"Inserisci il tuo nome.">> ELSE <<>>)
    \o (IF ~is_valid_email(f.email) THEN <<"Email non valida.">> ELSE <<>>)
    \o (IF ~is_valid_phone(f.phone) THEN <<"Numero di telefono non valido.">> ELSE <<>>)
    \o (IF f.ev_date = NoDate THEN <<"Scegli una data.">> ELSE <<>>)
    \o (IF ~f.consent
        THEN <<"Serve il consenso per poter essere ricontattati.">> ELSE <<>>)

BuildPayload(f) ==
    [evento_data |-> fmt(f.ev_date), nome |-> f.name, telefono |-> f.phone,
     email |-> f.email, location |-> f.location, messaggio |-> f.message,
     subject |-> <<"Richiesta preventivo - ", COMPANY_NAME>>]

\* requests.Response.ok : raise_for_status() does not raise, that is the
\* status is not in 400..599
ResponseOk(status) == ~(400 <= status /\ status < 600)

\* the guard of the webhook attempt: endpoint and requests is not None
ShouldPost(endpoint, reqOk) == endpoint \notin {"None", ""} /\ reqOk

\* the try block around requests.post: the values of sent and err_msg after
\* it, and whether an exception leaves the block (except Exception catches all)
PostAttempt(res) ==
    IF res.kind = "response"
    THEN IF ResponseOk(res.status)
         THEN [sent |-> TRUE, err_msg |-> None, escaped |-> FALSE]
         ELSE [sent |-> FALSE, err_msg |-> HttpMsg(res.status), escaped |-> FALSE]
    ELSE [sent |-> FALSE, err_msg |-> PostExcMsg, escaped |-> FALSE]

\* variant of ShouldSmtp: any(...) in place of all(...)
ShouldSmtpAny(isSent, keys) == ~isSent /\ keys \cap EmailKeys # {}

\* variant of ShouldSmtp: the "not sent" conjunct left out
ShouldSmtpAlways(isSent, keys) == EmailKeys \subseteq keys

\* the guard of the SMTP attempt: not sent and all(k in st.secrets ...)
ShouldSmtp(isSent, keys) == ~isSent /\ EmailKeys \subseteq keys

\* variant of SmtpAttempt: the except clause catches only the send errors,
\* so a failed connection or login leaves the block
SmtpAttemptUncaught(res, prev) ==
    IF res = "ok"
    THEN [sent |-> TRUE, err_msg |-> prev, escaped |-> FALSE]
    ELSE [sent |-> FALSE, err_msg |-> SmtpExcMsg,
          escaped |-> res \in {"connect_error", "login_error"}]

\* the try block around the SMTP send, entered with err_msg = prev
SmtpAttempt(res, prev) ==
    IF res = "ok"
    THEN [sent |-> TRUE, err_msg |-> prev, escaped |-> FALSE]
    ELSE [sent |-> FALSE, err_msg |-> SmtpExcMsg, escaped |-> FALSE]

\* the fallback link
BuildMailto(p) ==
    [scheme |-> "mailto:", to |-> CONTACT_EMAIL,
     subject |-> "Richiesta%20Il%20Nodo%20del%20Vento",
     body |-> <<p.evento_data, p.nome, p.telefono, p.email, p.location, p.messaggio>>]

\* the st.warning of the fallback: err_msg when it is set, and the link
BuildWarning(msg, p) ==
    [kind |-> "warning", lines |-> <<>>, diag |-> msg, mailto |-> BuildMailto(p)]

(***************************************************************************)
(* The handler as a state machine: one script run per submission           *)
(***************************************************************************)
PhoneIdle == phone_s = <<>> /\ phone_ok = FALSE

LiteForms ==
    [name : Names, email : Emails, phone : Phones,
     date : {fmt(d) : d \in Dates} \cup {<<>>}, consent : BOOLEAN]

NoLiteForm == [name |-> <<>>, email |-> <<>>, phone |-> <<>>, date |-> <<>>,
               consent |-> FALSE]

LiteIdle ==
    /\ lite_f = NoLiteForm
    /\ lite_now = CHOOSE d \in Dates : TRUE
    /\ lite_e = {}
    /\ lite_pc = "idle"

Init ==
    /\ pc = "idle"
    /\ secrets \in [endpoint : Endpoints, keys : KeySets]
    /\ requestsOk \in BOOLEAN
    /\ today \in Dates
    /\ form = NoForm
    /\ errors = <<>>
    /\ payload = NoPayload
    /\ sent = FALSE
    /\ err_msg = None
    /\ calls = <<>>
    /\ shown = NoShown
    /\ PhoneIdle
    /\ LiteIdle

\* "if submitted:" up to the branch on `errors`: validation, then either the
\* error list or the payload and the initial sent / err_msg
Submit(f) ==
    /\ pc = "idle"
    /\ form' = f
    /\ errors' = Validate(f)
    /\ IF Validate(f) # <<>>
       THEN /\ shown' = [kind |-> "error", lines |-> Validate(f), diag |-> None,
                         mailto |-> NoMailto]
            /\ pc' = "done"
            /\ UNCHANGED <<payload, sent, err_msg>>
       ELSE /\ payload' = BuildPayload(f)
            /\ sent' = FALSE
            /\ err_msg' = None
            /\ pc' = "webhook"
            /\ UNCHANGED shown
    /\ UNCHANGED <<secrets, requestsOk, today, calls, phoneVars, liteVars>>

\* "Preferenza 1: Formspree"
Webhook(res) ==
    /\ pc = "webhook"
    /\ IF ShouldPost(secrets.endpoint, requestsOk)
       THEN /\ calls' = Append(calls, [op |-> "POST", kind |-> res.kind,
                                       status |-> res.status])
            /\ sent' = PostAttempt(res).sent
            /\ err_msg' = PostAttempt(res).err_msg
            /\ pc' = IF PostAttempt(res).escaped THEN "crashed" ELSE "smtp"
       ELSE /\ pc' = "smtp"
            /\ UNCHANGED <<calls, sent, err_msg>>
    /\ UNCHANGED <<secrets, requestsOk, today, form, errors, payload, shown,
                   phoneVars, liteVars>>

\* "Preferenza 2: SMTP (se secrets presenti)"
Smtp(res) ==
    /\ pc = "smtp"
    /\ IF ShouldSmtp(sent, secrets.keys)
       THEN /\ calls' = Append(calls, [op |-> "SMTP", kind |-> res, status |-> 0])
            /\ sent' = SmtpAttempt(res, err_msg).sent
            /\ err_msg' = SmtpAttempt(res, err_msg).err_msg
            /\ pc' = IF SmtpAttempt(res, err_msg).escaped THEN "crashed" ELSE "finish"
       ELSE /\ pc' = "finish"
            /\ UNCHANGED <<calls, sent, err_msg>>
    /\ UNCHANGED <<secrets, requestsOk, today, form, errors, payload, shown,
                   phoneVars, liteVars>>

\* "if sent: st.success ... else: mailto, st.warning"
Finish ==
    /\ pc = "finish"
    /\ shown' = IF sent
                THEN [kind |-> "success", lines |-> <<>>, diag |-> None,
                      mailto |-> NoMailto]
                ELSE BuildWarning(err_msg, payload)
    /\ pc' = "done"
    /\ UNCHANGED <<secrets, requestsOk, today, form, errors, payload, sent, err_msg,
                   calls, phoneVars, liteVars>>

\* the next script run: the locals of the previous run are gone
Rerun ==
    /\ pc = "done"
    /\ pc' = "idle"
    /\ form' = NoForm
    /\ errors' = <<>>
    /\ payload' = NoPayload
    /\ sent' = FALSE
    /\ err_msg' = None
    /\ calls' = <<>>
    /\ shown' = NoShown
    /\ UNCHANGED <<secrets, requestsOk, today, phoneVars, liteVars>>

Next ==
    \/ \E f \in Forms : Submit(f)
    \/ \E res \in PostResults : Webhook(res)
    \/ \E res \in SmtpResults : Smtp(res)
    \/ Finish
    \/ Rerun

Spec == Init /\ [][Next]_vars

\* a script run past its validation goes on to its end: the POST is bounded
\* by timeout=10, and each later step is straight-line code
FairSpec ==
    /\ Spec
    /\ WF_vars(\E res \in PostResults : Webhook(res))
    /\ WF_vars(\E res \in SmtpResults : Smtp(res))
    /\ WF_vars(Finish)

(***************************************************************************)
(* is_valid_phone applied to strings built character by character and to   *)
(* the strings of the self-tests                                           *)
(***************************************************************************)
HandlerIdle ==
    /\ pc = "idle"
    /\ secrets = [endpoint |-> "None", keys |-> {}]
    /\ requestsOk = TRUE
    /\ today = CHOOSE d \in Dates : TRUE
    /\ form = NoForm
    /\ errors = <<>>
    /\ payload = NoPayload
    /\ sent = FALSE
    /\ err_msg = None
    /\ calls = <<>>
    /\ shown = NoShown

InitPhone == HandlerIdle /\ PhoneIdle /\ LiteIdle

PhoneAppend(c) ==
    /\ Len(phone_s) < MaxLen
    /\ phone_s' = Append(phone_s, c)
    /\ phone_ok' = is_valid_phone(Append(phone_s, c))
    /\ UNCHANGED <<handlerVars, liteVars>>

PhoneTest(t) ==
    /\ phone_s' = t
    /\ phone_ok' = is_valid_phone(t)
    /\ UNCHANGED <<handlerVars, liteVars>>

NextPhone ==
    \/ \E c \in PhoneAlphabet : PhoneAppend(c)
    \/ \E t \in PhoneTests : PhoneTest(t)

SpecPhone == InitPhone /\ [][NextPhone]_vars

(***************************************************************************)
(* validate_lite applied to forms                                          *)
(***************************************************************************)
InitLite == HandlerIdle /\ PhoneIdle /\ LiteIdle

CallValidateLite(f, now) ==
    /\ lite_pc = "idle"
    /\ lite_f' = f
    /\ lite_now' = now
    /\ lite_e' = validate_lite(f, now)
    /\ lite_pc' = "called"
    /\ UNCHANGED <<handlerVars, phoneVars>>

\* the result has been used; the next call starts afresh
LiteReturn ==
    /\ lite_pc = "called"
    /\ lite_f' = NoLiteForm
    /\ lite_now' = CHOOSE d \in Dates : TRUE
    /\ lite_e' = {}
    /\ lite_pc' = "idle"
    /\ UNCHANGED <<handlerVars, phoneVars>>

NextLite ==
    \/ \E f \in LiteForms : \E now \in Dates : CallValidateLite(f, now)
    \/ LiteReturn

SpecLite == InitLite /\ [][NextLite]_vars

(***************************************************************************)
(* The validation rules as the specification words them                    *)
(***************************************************************************)
HasNonSpace(s) == \E i \in 1..Len(s) : ~IsSpace(s[i])

\* name: trimmed length of at least 2
RuleName(s) == Len(Strip(s)) >= 2

\* phone: 7 or more characters, all of them digits, space, + ( ) -
RulePhone(s) == Len(s) >= MinPhoneLen /\ \A i \in 1..Len(s) : s[i] \in PhoneClass

\* email: local-part@sub(.sub)*.tld over the whole string
RuleEmail(s) ==
    \E a \in 2..Len(s) :
        /\ s[a] = "@"
        /\ \A i \in 1..(a - 1) : LocalClass(s[i])
        /\ DomainMatch(SubSeq(s, a + 1, Len(s)))

\* date: present and not before the current date
RuleDate(d, t) == d # NoDate /\ ~DateLT(d, t)

\* the submission of the handler passes every rule
RulesPass(f, t) ==
    /\ ~HasNonSpace(f.hp)
    /\ RuleName(f.name)
    /\ RuleEmail(f.email)
    /\ RulePhone(f.phone)
    /\ RuleDate(f.ev_date, t)
    /\ f.consent

\* a run of the handler is past its validation
Submitted == pc # "idle"

\* the run of the handler works on a submission its validation accepted
InPipeline == pc # "idle" /\ errors = <<>>

InSeq(x, s) == \E i \in 1..Len(s) : s[i] = x

Ops == [i \in 1..Len(calls) |-> calls[i].op]

Is2xx(c) == c.kind = "response" /\ 200 <= c.status /\ c.status < 300

CallSucceeded(c) ==
    \/ c.op = "POST" /\ Is2xx(c)
    \/ c.op = "SMTP" /\ c.kind = "ok"

(***************************************************************************)
(* Claims                                                                  *)
(***************************************************************************)

\* C1: whenever a validation rule fails (honeypot, name, email, phone, date
\* as the specification defines them, consent), the run issues no webhook
\* POST and no SMTP send, builds no mailto link, and ends with the error list.
C1_DeliveryOnlyWhenValid ==
    (Submitted /\ ~RulesPass(form, today)) =>
        /\ pc = "done"
        /\ shown.kind = "error"
        /\ shown.mailto = NoMailto
        /\ calls = <<>>

\* no endpoint and not the full set of SMTP keys in st.secrets
NoChannelConfigured ==
    /\ secrets.endpoint \in {"None", ""}
    /\ ~(EmailKeys \subseteq secrets.keys)

\* C2: with neither the webhook endpoint nor the full set of mail-relay
\* credentials configured, a valid submission makes no network call, raises no
\* exception, and ends in the fallback with a mailto link to CONTACT_EMAIL.
C2_NoChannelFallback ==
    (NoChannelConfigured /\ InPipeline) =>
        /\ calls = <<>>
        /\ pc # "crashed"
        /\ ~sent
        /\ pc = "done" =>
            /\ shown.kind = "warning"
            /\ shown.mailto # NoMailto
            /\ shown.mailto.scheme = "mailto:"
            /\ shown.mailto.to = CONTACT_EMAIL
            /\ shown.diag = None

C2_Witness ==
    /\ NoChannelConfigured
    /\ InPipeline
    /\ pc = "done"
    /\ shown.kind = "warning"
    /\ secrets.keys # {}

C3_ExactlyOne ==
    /\ pc # "crashed"
    /\ (pc = "done" /\ errors = <<>>) =>
        \/ shown.kind = "success" /\ shown.mailto = NoMailto /\ sent
        \/ shown.kind = "warning" /\ shown.mailto # NoMailto /\ ~sent

C4_SuccessIff2xx ==
    /\ (pc = "smtp" /\ calls # <<>>) => (sent <=> Is2xx(calls[1]))
    /\ (pc = "done" /\ Ops = <<"POST">> /\ ~Is2xx(calls[1])) => shown.kind = "warning"

SpamRejected ==
    /\ pc = "done"
    /\ shown.kind = "error"
    /\ InSeq("Rilevato spam.", shown.lines)
    /\ calls = <<>>

\* C5 (as claimed): a submission whose honeypot value is non-empty is always
\* rejected: a spam error is reported and no delivery step runs.
C5_AnyNonEmptyHoneypot == (Submitted /\ form.hp # <<>>) => SpamRejected

\* C5 (amended): a submission whose honeypot value holds a non-whitespace
\* character is always rejected by the submit handler, whatever the other
\* fields are: a spam error is reported and no delivery step runs.
C5_NonBlankHoneypot == (Submitted /\ HasNonSpace(form.hp)) => SpamRejected

C5_Witness ==
    /\ Submitted
    /\ HasNonSpace(form.hp)
    /\ RulesPass([form EXCEPT !.hp = <<>>], today)
    /\ SpamRejected

\* C6: the validation of the submit handler flags a date error for every event
\* date strictly before the current date, and none for today or a later date.
C6_DateRule ==
    (Submitted /\ form.ev_date # NoDate) =>
        (InSeq("Scegli una data.", errors) <=> DateLT(form.ev_date, today))

\* the rules a form given to validate_lite violates
LiteViolations(f, now) ==
    (IF ~RuleName(f.name) THEN {"name"} ELSE {})
    \cup (IF ~RuleEmail(f.email) THEN {"email"} ELSE {})
    \cup (IF ~RulePhone(f.phone) THEN {"phone"} ELSE {})
    \cup (IF f.date = <<>> \/ (\E d \in Dates : f.date = fmt(d) /\ DateLT(d, now))
          THEN {"date"} ELSE {})
    \cup (IF ~f.consent THEN {"consent"} ELSE {})

\* C7: the reported error set is exactly the set of violated rules: one error
\* for each rule that fails, none for a rule that passes, and so it is empty
\* exactly for a valid submission.
C7_ErrorSetExact ==
    lite_pc = "called" => lite_e = LiteViolations(lite_f, lite_now)

\* C8: is_valid_phone is true exactly for the strings of 7 or more characters
\* drawn from digits, space, + ( ) -; a shorter string, or one with any other
\* character (a trailing newline included), is rejected.
C8_PhoneRule == phone_ok <=> RulePhone(phone_s)

C9_Order ==
    /\ Ops \in {<<>>, <<"POST">>, <<"SMTP">>, <<"POST", "SMTP">>}
    /\ \A i \in 1..Len(calls) : \A j \in 1..Len(calls) :
           (i < j) => ~CallSucceeded(calls[i])
    /\ shown.kind = "warning" => \A i \in 1..Len(calls) : ~CallSucceeded(calls[i])

\* C9: the channels are tried in order, each at most once; the SMTP send is
\* issued only while the submission is unsent, never after a successful POST;
\* the fallback link is built only after no channel succeeded.
C9_Sequential ==
    /\ []C9_Order
    /\ [][(Len(calls') > Len(calls) /\ calls'[Len(calls')].op = "SMTP") => ~sent]_vars
    /\ [][(shown'.kind = "warning" /\ shown.kind # "warning") => ~sent]_vars

C9_Witness ==
    /\ pc = "done"
    /\ Ops = <<"POST", "SMTP">>
    /\ calls[1].kind = "response"
    /\ calls[2].kind = "ok"
    /\ shown.kind = "success"

\* the diagnostic a failed call produces
DiagOf(c) ==
    IF c.op = "SMTP" THEN SmtpExcMsg
    ELSE IF c.kind = "response" THEN HttpMsg(c.status) ELSE PostExcMsg

\* C10: a fallback outcome carries the diagnostic of every channel attempt
\* that failed, the primary's also when the secondary failed after it, and
\* carries none when no channel was attempted.
C10_FallbackDiagnostics ==
    (pc = "done" /\ shown.kind = "warning") =>
        /\ calls = <<>> => shown.diag = None
        /\ \A i \in 1..Len(calls) : shown.diag = DiagOf(calls[i])

====
